---- MODULE Spec2Model ----
(***************************************************************************)
(* Model of the backend of abenable/Industry_4.0: the classification       *)
(* controller (classifyImage, getUserHistory, getUserStats,                *)
(* deleteClassification), the user controller (deleteUser), the error      *)
(* layer (ApiError, ErrorHandler), the inference client, the insights      *)
(* service and the S3 helper, over a database with the constraints of the  *)
(* Prisma migration (unique User.email, History.userId foreign key with    *)
(* ON DELETE CASCADE).                                                     *)
(*                                                                         *)
(* Every request handler is an async function: it runs from one `await`    *)
(* to the next without interruption, and other requests may run while it   *)
(* is suspended.  Each action below is one such piece: the collaborator    *)
(* call the handler is waiting for, followed by the handler's code up to   *)
(* its next await (or to its response).                                    *)
(***************************************************************************)
EXTENDS Integers, Sequences, FiniteSets, TLC

VARIABLES
    users,      \* table "User": set of user rows
    history,    \* table "History": set of history rows
    store,      \* ObjectStore: set of keys of the blobs it holds
    nextUid,    \* next fresh User id
    nextHid,    \* next fresh History id
    nextKey,    \* next fresh random blob name
    now,        \* database clock (milliseconds, TIMESTAMP(3))
    nodeEnv,    \* process.env.NODE_ENV
    genaiClient,\* GenAIService.client: "set" or None (not configured)
    started,    \* number of requests received so far
    req,        \* request slot -> the state of the handler running in it
    last,       \* the request answered last, with its response
    snap        \* the tables as they were when the latest request arrived

vars == <<users, history, store, nextUid, nextHid, nextKey, now, nodeEnv,
          genaiClient, started, req, last, snap>>

(***************************************************************************)
(* Bounds of the model.                                                    *)
(***************************************************************************)
MaxReqs == 2        \* requests in flight at the same time
MaxStarts == 2      \* requests received in one behaviour
MaxRows == 3        \* History rows in the tables the read requests start from

Reqs == 1..MaxReqs

(***************************************************************************)
(* Values.  Text that the code inspects character by character (e-mail     *)
(* addresses, crop types, query parameters) is a sequence of one-character *)
(* strings; other text is a string.  JavaScript's undefined and null are   *)
(* the markers below.                                                      *)
(***************************************************************************)
Undef == "undefined"
Null == "null"
UndefS == <<"undefined">>
NullS == <<"null">>

\* JavaScript truthiness of a text value (used by !x and by x || y), for
\* strings and for character sequences
Falsy(x) == x \in {Undef, Null, ""}
FalsyS(x) == x \in {UndefS, NullS, <<>>}

\* a ?? b, which passes an empty text on
OrSNullish(a, b) == IF a \in {UndefS, NullS} THEN b ELSE a

\* JavaScript a || b
Or(a, b) == IF Falsy(a) THEN b ELSE a
OrS(a, b) == IF FalsyS(a) THEN b ELSE a

EmailA == <<"a", "@", "x", ".", "y">>
EmailB == <<"b", "@", "x", ".", "y">>
NotAnEmail == <<"n", "o", "t", "-", "a", "n", "-", "e", "m", "a", "i", "l">>
NoTld == <<"a", "@", "x">>
TwoAts == <<"a", "@", "@", "x", ".", "y">>
WithSpace == <<"a", " ", "@", "x", ".", "y">>

Maize == <<"m", "a", "i", "z", "e">>
MaizeCaps == <<"M", "a", "i", "Z", "E">>
Bean == <<"b", "e", "a", "n">>
Crop == <<"c", "r", "o", "p">>

NoUser == [id |-> 0, email |-> UndefS, fullName |-> UndefS,
           phoneNumber |-> Null, role |-> "user", isActive |-> TRUE]

\* a classification result without any field (the fields the code reads)
NoResult == [disease |-> Undef, predicted_class |-> Undef, confidence |-> -1,
             crop_type |-> UndefS]

NoInsights == [src |-> Undef, cropType |-> UndefS, condition |-> Undef,
               confidence |-> -1]

NoResp == [status |-> 0]

\* no error thrown by a method of InferenceClient: by is the method, cause
\* what the HTTP exchange did, message the message of the thrown error
NoThrown == [by |-> "", cause |-> "", message |-> ""]

(***************************************************************************)
(* Pure functions of the code.                                             *)
(***************************************************************************)
\* a pattern without the dot of the domain: /^[^\s@]+@[^\s@]+$/
emailRegexNoDot(s) ==
    \E i \in 1..Len(s) :
        /\ s[i] = "@"
        /\ 1 < i
        /\ i < Len(s)
        /\ \A k \in 1..Len(s) : k # i => s[k] \notin {"@", " "}

\* classifyImage: /^[^\s@]+@[^\s@]+\.[^\s@]+$/.test(email)
emailRegexTest(s) ==
    \E i \in 1..Len(s), j \in 1..Len(s) :
        /\ s[i] = "@"
        /\ s[j] = "."
        /\ 1 < i
        /\ i + 1 < j
        /\ j < Len(s)
        /\ \A k \in 1..Len(s) : k # i => s[k] \notin {"@", " "}

\* email.split('@')[0]
RECURSIVE splitAtFirst(_)
splitAtFirst(s) ==
    IF s = <<>> \/ Head(s) = "@" THEN <<>>
    ELSE <<Head(s)>> \o splitAtFirst(Tail(s))

\* String.prototype.toLowerCase on the letters the inputs use
lowerChar(c) ==
    CASE c = "M" -> "m" [] c = "A" -> "a" [] c = "I" -> "i"
      [] c = "Z" -> "z" [] c = "E" -> "e" [] c = "B" -> "b"
      [] c = "N" -> "n" [] OTHER -> c

toLowerCase(s) == [i \in 1..Len(s) |-> lowerChar(s[i])]

\* a selection that compares the crop type as it was written
modelNameExact(cropType) == IF cropType = Maize THEN "maize" ELSE "bean"

\* classifyImage: cropType?.toLowerCase() === 'maize' ? 'maize' : 'bean'
modelName(cropType) ==
    IF cropType \notin {UndefS, NullS} /\ toLowerCase(cropType) = Maize
    THEN "maize" ELSE "bean"

\* the value of a decimal digit, -1 for any other character
digit(c) ==
    CASE c = "0" -> 0 [] c = "1" -> 1 [] c = "2" -> 2 [] c = "3" -> 3
      [] c = "4" -> 4 [] c = "5" -> 5 [] c = "6" -> 6 [] c = "7" -> 7
      [] c = "8" -> 8 [] c = "9" -> 9 [] OTHER -> -1

\* the number read from the leading digits of s, after acc; -1 if none read
RECURSIVE digits(_, _)
digits(s, acc) ==
    IF s = <<>> \/ digit(Head(s)) < 0 THEN acc
    ELSE digits(Tail(s), (IF acc < 0 THEN 0 ELSE acc * 10) + digit(Head(s)))

\* parseInt(s): leading blanks, an optional sign, then digits up to the first
\* other character; NaN when there is no digit (also for undefined)
RECURSIVE parseInt(_)
parseInt(s) ==
    IF s = UndefS \/ s = <<>> THEN [nan |-> TRUE, val |-> 0]
    ELSE IF Head(s) = " " THEN parseInt(Tail(s))
    ELSE LET neg == Head(s) = "-"
             rest == IF Head(s) \in {"-", "+"} THEN Tail(s) ELSE s
             n == digits(rest, -1)
         IN  IF n < 0 THEN [nan |-> TRUE, val |-> 0]
             ELSE [nan |-> FALSE, val |-> IF neg THEN 0 - n ELSE n]

\* parseInt(s) || dflt: NaN and 0 are falsy
parseIntOr(s, dflt) ==
    LET n == parseInt(s) IN IF n.nan \/ n.val = 0 THEN dflt ELSE n.val

\* Math.ceil(a / b) for a >= 0 and b >= 1
ceilDiv(a, b) == (a + b - 1) \div b

\* getUserHistory: skip = (page - 1) * limit, with the off-by-one variant
skipOfPageFromZero(page, limit) == page * limit

skipOf(page, limit) == (page - 1) * limit

\* JSON.stringify / JSON.parse of a classification result
stringify(result) == [json |-> result]
parse(text) == text.json

\* uploadToS3: key = `${folder}/${randomName}.${extension}`,
\* url = `${S3_ENDPOINT}/${S3_BUCKET_NAME}/${key}`
s3Key(folder, n) == <<folder, n>>
s3Url(key) == <<"S3_ENDPOINT", "S3_BUCKET_NAME">> \o key
keyOfUrl(url) == SubSeq(url, 3, Len(url))

\* an upload that reports success without storing the blob
uploadLosesBlob(st, key, outcome) == st

\* an upload that leaves the blob behind although it reports a failure
uploadKeepsFailedBlob(st, key, outcome) == st \cup {key}

\* s3.upload(params).promise(): the blob is stored, or the call throws
uploadToS3(st, key, outcome) == IF outcome = "error" THEN st ELSE st \cup {key}

\* a fallback that reads the two labels in the wrong order
getFallbackPredictedFirst(result, cropType) ==
    [src |-> "fallback",
     cropType |-> cropType,
     condition |-> Or(Or(result.predicted_class, result.disease), "Unknown condition"),
     confidence |-> IF result.confidence > 0 THEN result.confidence ELSE -1]

\* GenAIService.getFallbackResponse; confidence is in 1/10000, so that
\* (confidence * 100).toFixed(2) is the same number read in 1/100 percent,
\* and 'N/A' is -1
getFallbackResponse(result, cropType) ==
    [src |-> "fallback",
     cropType |-> cropType,
     condition |-> Or(Or(result.disease, result.predicted_class), "Unknown condition"),
     confidence |-> IF result.confidence > 0 THEN result.confidence ELSE -1]

\* the text a configured provider returns (opaque to the workflow)
GeminiText == [src |-> "gemini", cropType |-> UndefS, condition |-> Undef,
               confidence |-> -1]

\* GenAIService.generateInsights: fallback when no client is configured or
\* the provider call throws, the provider's text otherwise
generateInsights(client, providerOk, result, cropType) ==
    IF Falsy(client) THEN getFallbackResponse(result, cropType)
    ELSE IF providerOk THEN GeminiText
    ELSE getFallbackResponse(result, cropType)

\* a health check that takes every 2xx answer for healthy
healthCheckAny2xx(http) ==
    [threw |-> FALSE, value |-> http.kind = "response" /\ http.status \in 200..299]

\* InferenceClient.healthCheck, given what the HTTP exchange did: axios
\* rejects a status outside 2xx, a timeout and a network error, and the catch
\* returns false; threw tells whether the call ended by throwing
healthCheck(http) ==
    IF http.kind = "response" /\ http.status \in 200..299
    THEN [threw |-> FALSE, value |-> http.status = 200]
    ELSE [threw |-> FALSE, value |-> FALSE]

\* the message of the error with which axios rejects a request
axiosMessage(http) ==
    CASE http.kind = "ECONNREFUSED" -> "connect ECONNREFUSED"
      [] http.kind = "ECONNABORTED" -> "timeout exceeded"
      [] http.kind = "ETIMEDOUT" -> "connect ETIMEDOUT"
      [] http.kind = "response" -> "Request failed with status code"
      [] OTHER -> "Network Error"

\* InferenceClient.getInfo: response.data, or the error rethrown
getInfo(http) ==
    IF http.kind = "response" /\ http.status \in 200..299
    THEN [threw |-> FALSE, data |-> [info |-> "inference"], message |-> ""]
    ELSE [threw |-> TRUE, data |-> [info |-> ""], message |-> axiosMessage(http)]

\* InferenceClient.getModels and getModelInfo: response.data, or the error
\* of axios rethrown as it is
getModels(http) ==
    IF http.kind = "response" /\ http.status \in 200..299
    THEN [threw |-> FALSE, data |-> [info |-> "models"], message |-> ""]
    ELSE [threw |-> TRUE, data |-> [info |-> ""], message |-> axiosMessage(http)]

\* a predict that answers an empty result when the request times out
predictSwallowsTimeout(http) ==
    IF http.kind = "response" /\ http.status = 200 /\ http.hasBody
    THEN [ok |-> TRUE, data |-> http.data, message |-> ""]
    ELSE IF http.kind \in {"ETIMEDOUT", "ECONNABORTED"}
    THEN [ok |-> TRUE, data |-> NoResult, message |-> ""]
    ELSE [ok |-> FALSE, data |-> NoResult, message |-> "Request failed with status code"]

\* InferenceClient.predict, given what the HTTP exchange did: the data of a
\* 200 answer, or the error it throws.  axios rejects a status outside 2xx
\* itself; a 2xx other than 200 is turned into an Error by predict; reading
\* response.data.predicted_class of an empty body is a TypeError.
predict(http) ==
    CASE http.kind = "ECONNREFUSED" ->
            [ok |-> FALSE, data |-> NoResult,
             message |-> "AI inference service is unavailable. Please ensure the AI model server is running."]
      [] http.kind \in {"ETIMEDOUT", "ECONNABORTED"} ->
            [ok |-> FALSE, data |-> NoResult,
             message |-> "AI inference request timed out. The image may be too large or the server is busy."]
      [] http.kind = "response" /\ http.status = 200 /\ http.hasBody ->
            [ok |-> TRUE, data |-> http.data, message |-> ""]
      [] http.kind = "response" /\ http.status = 200 ->
            [ok |-> FALSE, data |-> NoResult,
             message |-> "Cannot read properties of null (reading 'predicted_class')"]
      [] http.kind = "response" /\ http.status \in 200..299 ->
            [ok |-> FALSE, data |-> NoResult,
             message |-> "Inference API returned status"]
      [] OTHER ->
            [ok |-> FALSE, data |-> NoResult,
             message |-> "Request failed with status code"]

\* new ApiError(statusCode, message): details defaults to null
ApiError(statusCode, message) ==
    [statusCode |-> statusCode, message |-> message, details |-> Null,
     stack |-> TRUE, isOperational |-> TRUE]

\* ErrorHandler: status and message always, details and stack only when
\* NODE_ENV is 'development'
ErrorHandler(err, env) ==
    LET isDevelopment == env = "development" IN
    [status |-> IF err.statusCode = 0 THEN 500 ELSE err.statusCode,
     body |-> "Error",
     error_message |-> IF err.message = <<>> THEN <<"Internal Server Error">>
                       ELSE err.message,
     details |-> isDevelopment /\ ~Falsy(err.details),
     stack |-> isDevelopment /\ err.stack]

(***************************************************************************)
(* The database: the queries the handlers send, as Prisma executes them    *)
(* under the constraints of the migration.                                 *)
(***************************************************************************)
\* a lookup that lost its where clause: some user, whatever the email
userFindAny(us, email) == IF us = {} THEN {} ELSE {CHOOSE u \in us : TRUE}

\* prisma.user.findUnique({ where: { email } })
userFindUnique(us, email) == {u \in us : u.email = email}

\* a User table without the unique index on email
emailNotIndexed(us, email) == TRUE

\* unique index User_email_key: may a row with this email be inserted
emailFree(us, email) == ~\E u \in us : u.email = email

\* the row prisma.user.create inserts for classifyImage
newUser(id, email) ==
    [id |-> id, email |-> email, fullName |-> splitAtFirst(email),
     phoneNumber |-> Null, role |-> "user", isActive |-> TRUE]

\* a History table without the foreign key
ownerNotChecked(us, userId) == TRUE

\* foreign key History_userId_fkey: may a row owned by userId be inserted
ownerExists(us, userId) == \E u \in us : u.id = userId

\* a create whose row is lost
historyInsertLost(hist, row) == hist

\* prisma.history.create
\* an insert that replaces the rows the user already has
historyUpsertByUser(hist, row) == {h \in hist : h.userId # row.userId} \cup {row}

historyInsert(hist, row) == hist \cup {row}

\* prisma.history.findUnique({ where: { id }, include: { user } })
historyFindUnique(hist, id) == {h \in hist : h.id = id}

\* an ownership check that lets everybody through
notOwnerSkipped(us, h, email) == FALSE

\* deleteClassification: classification.user.email !== email
notOwner(us, h, email) == (CHOOSE u \in us : u.id = h.userId).email # email

\* prisma.history.delete({ where: { id } })
\* a delete that takes every row of the same owner with it
historyDeleteOfOwner(hist, id) ==
    {h \in hist : \A g \in hist : g.id = id => h.userId # g.userId}

historyDelete(hist, id) == {h \in hist : h.id # id}

\* where: { userId }, with the variant that forgets the filter
historyOfAnyUser(hist, userId) == hist

historyOfUser(hist, userId) == {h \in hist : h.userId = userId}

\* the orders in which the database may return rows for
\* orderBy: { created_at: 'desc' }: rows of the same millisecond in any order
newestFirst(rows) ==
    {o \in [1..Cardinality(rows) -> rows] :
        /\ \A i, j \in 1..Cardinality(rows) : i # j => o[i] # o[j]
        /\ \A i, j \in 1..Cardinality(rows) : i < j => o[i].created_at >= o[j].created_at}

\* skip and take of findMany on an ordered result (skip >= 0, take >= 1)
skipTake(o, skip, take) ==
    SubSeq(o, skip + 1, IF skip + take < Len(o) THEN skip + take ELSE Len(o))

\* prisma.history.groupBy({ by: ['disease'], where: { userId, disease: { not: null } },
\* _count: { disease: true } }), mapped to { disease, count }
diseaseGroups(hist, userId) ==
    LET rows == {h \in historyOfUser(hist, userId) : h.disease # Null} IN
    {[disease |-> d, count |-> Cardinality({h \in rows : h.disease = d})] :
        d \in {h.disease : h \in rows}}

\* the same for cropType
cropGroups(hist, userId) ==
    LET rows == {h \in historyOfUser(hist, userId) : h.cropType # NullS} IN
    {[cropType |-> c, count |-> Cardinality({h \in rows : h.cropType = c})] :
        c \in {h.cropType : h \in rows}}

\* the unique index User_phoneNumber_key: NULLs do not collide
phoneFree(us, id, phone) ==
    phone = Null \/ ~\E u \in us : u.id # id /\ u.phoneNumber = phone

\* prisma.user.update({ where: { id }, data: updateData }): only the fields
\* that were provided are written
userUpdate(us, id, name, phone) ==
    {IF u.id # id THEN u
     ELSE [u EXCEPT !.fullName = IF name = UndefS THEN @ ELSE name,
                    !.phoneNumber = IF phone = Undef THEN @ ELSE phone] : u \in us}

\* prisma.user.delete({ where: { id } }) with ON DELETE CASCADE
userDelete(us, id) == {u \in us : u.id # id}

\* a foreign key without ON DELETE CASCADE that lets the rows stay
historyNoCascade(hist, userId) == hist

historyCascade(hist, userId) == {h \in hist : h.userId # userId}

(***************************************************************************)
(* Inputs and collaborator outcomes.                                       *)
(***************************************************************************)
ResFull == [disease |-> "diseaseA", predicted_class |-> "diseaseB",
            confidence |-> 9550, crop_type |-> Maize]
ResClass == [disease |-> Undef, predicted_class |-> "diseaseB",
             confidence |-> 0, crop_type |-> UndefS]

HttpOk(data) == [kind |-> "response", status |-> 200, hasBody |-> TRUE, data |-> data]
HttpStatus(n) == [kind |-> "response", status |-> n, hasBody |-> FALSE, data |-> NoResult]
HttpError(code) == [kind |-> code, status |-> 0, hasBody |-> FALSE, data |-> NoResult]

\* a database call either is executed or fails for a reason of its own
\* (connection lost); an upload likewise
DbOutcomes == {"ok", "error"}
S3Outcomes == {"ok", "error"}
DbDown == "Can't reach database server"
S3Down == "S3 upload failed"
UniqueViolation == "Unique constraint failed on the fields: (email)"
ForeignKeyViolation == "Foreign key constraint failed on the field: userId"

(***************************************************************************)
(* Request slots.                                                          *)
(***************************************************************************)
IdleReq ==
    [kind |-> "idle", pc |-> "idle",
     file |-> FALSE, email |-> UndefS, cropType |-> UndefS, target |-> 0,
     page |-> UndefS, limit |-> UndefS, fullName |-> UndefS, phoneNumber |-> Undef,
     httpStatus |-> 0, health |-> [threw |-> FALSE, value |-> FALSE],
     thrown |-> NoThrown,    \* the error an InferenceClient method threw
     model |-> "",           \* the model name passed to InferenceClient.predict
     user |-> NoUser, image |-> <<>>, http |-> "", result |-> NoResult, genai |-> "",
     insights |-> NoInsights, resp |-> NoResp,
     calls |-> <<>>]      \* collaborator calls made so far, in order

Free(q) == req[q].pc = "idle"
InFlight(q) == ~Free(q)

\* a request is received into the lowest free slot
Accepts(r) ==
    /\ started < MaxStarts
    /\ Free(r)
    /\ \A q \in Reqs : q < r => InFlight(q)

Arrived(r, kind) == [IdleReq EXCEPT !.kind = kind]

\* the handler in slot r has reached state rec: suspended at its next
\* await, or answered, which frees the slot
Settle(slots, r, rec) ==
    /\ req' = [slots EXCEPT ![r] = IF rec.pc = "done" THEN IdleReq ELSE rec]
    /\ last' = IF rec.pc = "done" THEN rec ELSE last

Continue(r, rec) == Settle(req, r, rec) /\ UNCHANGED snap

\* request r arrived and its handler has reached state rec
Receive(r, rec) ==
    /\ started' = started + 1
    /\ snap' = [users |-> users, history |-> history]
    /\ Settle(req, r, rec)

\* a handler that drops the error: neither next(err) nor a response
FailedHangs(rec, err) == [rec EXCEPT !.pc = "hung"]

\* next(err): the ErrorHandler middleware writes the response
Failed(rec, err) ==
    [rec EXCEPT !.pc = "done", !.resp = ErrorHandler(err, nodeEnv)]

\* a client that repeats every call once
CalledTwice(rec, name) == [rec EXCEPT !.calls = Append(Append(@, name), name)]

Called(rec, name) == [rec EXCEPT !.calls = Append(@, name)]

DbUnchanged == UNCHANGED <<users, history, store, nextUid, nextHid, nextKey, now>>
EnvUnchanged == UNCHANGED <<nodeEnv, genaiClient>>

(***************************************************************************)
(* classifyImage                                                           *)
(***************************************************************************)
\* a catch that swallows the error and carries on with the last step
classifyCatchGoesOn(rec, message) == [rec EXCEPT !.pc = "save"]

\* the catch block of classifyImage
classifyCatch(rec, message) ==
    Failed(rec, ApiError(500, <<"Classification failed: ", message>>))

\* Request received: validation, then step 1, prisma.user.findUnique
classifyImage(r, files, emails, crops) ==
    /\ Accepts(r)
    /\ \E file \in files, email \in emails, cropType \in crops, db \in DbOutcomes :
        LET rec == [Arrived(r, "classify") EXCEPT
                        !.file = file, !.email = email, !.cropType = cropType]
            found == userFindUnique(users, email)
        IN  IF ~file
            THEN Receive(r, Failed(rec, ApiError(400, <<"No image file provided">>)))
            ELSE IF FalsyS(email)
            THEN Receive(r, Failed(rec, ApiError(400, <<"Email is required">>)))
            ELSE IF ~emailRegexTest(email)
            THEN Receive(r, Failed(rec, ApiError(400, <<"Invalid email format">>)))
            ELSE IF db = "error"
            THEN Receive(r, classifyCatch(Called(rec, "user.findUnique"), DbDown))
            ELSE IF found = {}
            THEN Receive(r, [Called(rec, "user.findUnique") EXCEPT !.pc = "createUser"])
            ELSE Receive(r, [Called(rec, "user.findUnique") EXCEPT
                                !.pc = "upload",
                                !.user = CHOOSE u \in found : TRUE])
    /\ DbUnchanged
    /\ EnvUnchanged

\* Step 1, prisma.user.create: the unique index on User.email rejects a
\* second row with the same email (P2002)
classifyCreateUser(r) ==
    /\ req[r].kind = "classify"
    /\ req[r].pc = "createUser"
    /\ \E db \in DbOutcomes :
        LET rec == Called(req[r], "user.create")
            user == newUser(nextUid, rec.email)
        IN  IF db = "error"
            THEN /\ Continue(r, classifyCatch(rec, DbDown))
                 /\ UNCHANGED <<users, nextUid>>
            ELSE IF ~emailFree(users, rec.email)
            THEN /\ Continue(r, classifyCatch(rec, UniqueViolation))
                 /\ UNCHANGED <<users, nextUid>>
            ELSE /\ users' = users \cup {user}
                 /\ nextUid' = nextUid + 1
                 /\ Continue(r, [rec EXCEPT !.pc = "upload", !.user = user])
    /\ UNCHANGED <<history, store, nextHid, nextKey, now, started>>
    /\ EnvUnchanged

\* Step 2, uploadToS3 under a random name in folder 'crop-images'
classifyUpload(r) ==
    /\ req[r].kind = "classify"
    /\ req[r].pc = "upload"
    /\ \E s3 \in S3Outcomes :
        LET rec == Called(req[r], "s3.upload")
            key == s3Key("crop-images", nextKey)
        IN  IF s3 = "error"
            THEN /\ Continue(r, classifyCatch(rec, S3Down))
                 /\ store' = uploadToS3(store, key, s3)
                 /\ UNCHANGED nextKey
            ELSE /\ store' = uploadToS3(store, key, s3)
                 /\ nextKey' = nextKey + 1
                 /\ Continue(r, [rec EXCEPT !.pc = "predict",
                                                          !.image = s3Url(key)])
    /\ UNCHANGED <<users, history, nextUid, nextHid, now, started>>
    /\ EnvUnchanged

\* Step 3, inferenceClient.predict with the model chosen from cropType
classifyPredict(r, https) ==
    /\ req[r].kind = "classify"
    /\ req[r].pc = "predict"
    /\ \E http \in https :
        LET rec == [Called(req[r], "inference.predict") EXCEPT
                        !.http = http.kind, !.model = modelName(req[r].cropType)]
            p == predict(http)
        IN  Continue(r,
                      IF p.ok THEN [rec EXCEPT !.pc = "insights", !.result = p.data]
                      ELSE classifyCatch([rec EXCEPT !.thrown = [by |-> "predict",
                                                                 cause |-> http.kind,
                                                                 message |-> p.message]],
                                         p.message))
    /\ DbUnchanged
    /\ UNCHANGED started
    /\ EnvUnchanged

\* Step 4, genAIService.generateInsights
classifyInsights(r) ==
    /\ req[r].kind = "classify"
    /\ req[r].pc = "insights"
    /\ \E providerOk \in BOOLEAN :
        LET rec == Called(req[r], "genai.generateInsights")
            crop == OrS(OrS(rec.cropType, rec.result.crop_type), Crop)
        IN  Continue(r,
                      [rec EXCEPT !.pc = "save",
                                  !.genai = IF Falsy(genaiClient) THEN "unconfigured"
                                            ELSE IF providerOk THEN "ok" ELSE "threw",
                                  !.insights = generateInsights(genaiClient, providerOk,
                                                                rec.result, crop)])
    /\ DbUnchanged
    /\ UNCHANGED started
    /\ EnvUnchanged

\* Steps 5 and 6, prisma.history.create and the 200 response; the foreign
\* key History.userId rejects a row whose user is gone (P2003).  created_at
\* is the database clock, which has advanced by one of ticks since the last
\* row was written (0: within the same millisecond).
classifySave(r, ticks) ==
    /\ req[r].kind = "classify"
    /\ req[r].pc = "save"
    /\ \E db \in DbOutcomes, t \in {now + d : d \in ticks} :
        LET rec == Called(req[r], "history.create")
            res == rec.result
            row == [id |-> nextHid,
                    userId |-> rec.user.id,
                    image |-> rec.image,
                    disease |-> Or(Or(res.disease, res.predicted_class), "Unknown"),
                    cropType |-> OrS(OrS(rec.cropType, res.crop_type), NullS),
                    model_response |-> stringify(res),
                    genai_response |-> rec.insights,
                    created_at |-> t]
            body == [id |-> row.id,
                     user |-> [id |-> rec.user.id, email |-> rec.user.email,
                               fullName |-> rec.user.fullName],
                     image |-> rec.image,
                     classification |->
                        [disease |-> Or(res.disease, res.predicted_class),
                         confidence |-> res.confidence,
                         cropType |-> OrS(rec.cropType, res.crop_type),
                         fullResult |-> res],
                     insights |-> rec.insights,
                     createdAt |-> row.created_at]
        IN  IF db = "error"
            THEN /\ Continue(r, classifyCatch(rec, DbDown))
                 /\ UNCHANGED <<history, nextHid, now>>
            ELSE IF ~ownerExists(users, row.userId)
            THEN /\ Continue(r, classifyCatch(rec, ForeignKeyViolation))
                 /\ UNCHANGED <<history, nextHid, now>>
            ELSE /\ history' = historyInsert(history, row)
                 /\ nextHid' = nextHid + 1
                 /\ now' = t
                 /\ Continue(r,
                              [rec EXCEPT !.pc = "done",
                                          !.resp = [status |-> 200, body |-> "success",
                                                    data |-> body]])
    /\ UNCHANGED <<users, store, nextUid, nextKey, started>>
    /\ EnvUnchanged

(***************************************************************************)
(* deleteClassification                                                    *)
(***************************************************************************)
\* Request received: validation, then prisma.history.findUnique with the
\* owning user, and the ownership check
deleteClassification(r, ids, emails) ==
    /\ Accepts(r)
    /\ \E id \in ids, email \in emails, db \in DbOutcomes :
        LET rec == [Arrived(r, "deleteClassification") EXCEPT
                        !.target = id, !.email = email]
            found == historyFindUnique(history, id)
        IN  IF id = 0 \/ FalsyS(email)
            THEN Receive(r, Failed(rec, ApiError(400,
                            <<"Classification ID and email are required">>)))
            ELSE IF db = "error"
            THEN Receive(r, Failed(Called(rec, "history.findUnique"),
                                   ApiError(500, <<DbDown>>)))
            ELSE IF found = {}
            THEN Receive(r, Failed(Called(rec, "history.findUnique"),
                                   ApiError(404, <<"Classification not found">>)))
            ELSE IF notOwner(users, CHOOSE h \in found : TRUE, email)
            THEN Receive(r, Failed(Called(rec, "history.findUnique"),
                                   ApiError(403,
                                    <<"You can only delete your own classifications">>)))
            ELSE Receive(r, [Called(rec, "history.findUnique") EXCEPT !.pc = "delete"])
    /\ DbUnchanged
    /\ EnvUnchanged

\* prisma.history.delete, which throws P2025 when the row is gone, and the
\* 200 response; the blob is left in S3
deleteClassificationDelete(r) ==
    /\ req[r].kind = "deleteClassification"
    /\ req[r].pc = "delete"
    /\ \E db \in DbOutcomes :
        LET rec == Called(req[r], "history.delete") IN
        IF db = "error"
        THEN /\ Continue(r, Failed(rec, ApiError(500, <<DbDown>>)))
             /\ UNCHANGED history
        ELSE IF historyFindUnique(history, rec.target) = {}
        THEN /\ Continue(r, Failed(rec, ApiError(500,
                            <<"Record to delete does not exist.">>)))
             /\ UNCHANGED history
        ELSE /\ history' = historyDelete(history, rec.target)
             /\ Continue(r,
                          [rec EXCEPT !.pc = "done",
                                      !.resp = [status |-> 200, body |-> "success",
                                                message |-> "Classification deleted successfully"]])
    /\ UNCHANGED <<users, store, nextUid, nextHid, nextKey, now, started>>
    /\ EnvUnchanged

(***************************************************************************)
(* deleteUser                                                              *)
(***************************************************************************)
\* prisma.user.delete: P2025 when there is no such user; the foreign key
\* History_userId_fkey deletes the user's history rows with it
deleteUser(r, ids) ==
    /\ Accepts(r)
    /\ \E id \in ids, db \in DbOutcomes :
        LET rec == [Arrived(r, "deleteUser") EXCEPT !.target = id] IN
        IF id = 0
        THEN /\ Receive(r, Failed(rec, ApiError(400, <<"User ID is required">>)))
             /\ UNCHANGED <<users, history>>
        ELSE IF db = "error"
        THEN /\ Receive(r, Failed(Called(rec, "user.delete"), ApiError(500, <<DbDown>>)))
             /\ UNCHANGED <<users, history>>
        ELSE IF ~\E u \in users : u.id = id
        THEN /\ Receive(r, Failed(Called(rec, "user.delete"),
                                  ApiError(404, <<"User not found">>)))
             /\ UNCHANGED <<users, history>>
        ELSE /\ users' = userDelete(users, id)
             /\ history' = historyCascade(history, id)
             /\ Receive(r, [Called(rec, "user.delete") EXCEPT
                              !.pc = "done",
                              !.resp = [status |-> 200, body |-> "success",
                                        message |-> "User and associated history deleted successfully"]])
    /\ UNCHANGED <<store, nextUid, nextHid, nextKey, now>>
    /\ EnvUnchanged

(***************************************************************************)
(* checkInferenceHealth                                                    *)
(***************************************************************************)
\* Request received and inferenceClient.healthCheck(): 503 when it answers
\* false (written by the handler itself), 503 through the catch if it throws
checkInferenceHealth(r, https) ==
    /\ Accepts(r)
    /\ \E http \in https :
        LET h == healthCheck(http)
            rec == [Called(Arrived(r, "checkInferenceHealth"), "inference.healthCheck")
                        EXCEPT !.http = http.kind, !.httpStatus = http.status,
                               !.health = h]
        IN  IF h.threw
            THEN Receive(r, Failed(rec, ApiError(503,
                                <<"Failed to connect to AI inference API">>)))
            ELSE IF h.value
            THEN Receive(r, [rec EXCEPT !.pc = "info"])
            ELSE Receive(r, [rec EXCEPT
                                !.pc = "done",
                                !.resp = [status |-> 503, body |-> "error",
                                          message |-> "AI inference API is not responding"]])
    /\ DbUnchanged
    /\ EnvUnchanged

\* inferenceClient.getInfo() and the 200 response
checkInferenceHealthInfo(r, https) ==
    /\ req[r].kind = "checkInferenceHealth"
    /\ req[r].pc = "info"
    /\ \E http \in https :
        LET i == getInfo(http)
            rec == [Called(req[r], "inference.getInfo") EXCEPT
                        !.thrown = IF i.threw THEN [by |-> "getInfo", cause |-> http.kind,
                                                    message |-> i.message]
                                   ELSE @]
        IN  IF i.threw
            THEN Continue(r, Failed(rec, ApiError(503,
                                <<"Failed to connect to AI inference API">>)))
            ELSE Continue(r, [rec EXCEPT
                                !.pc = "done",
                                !.resp = [status |-> 200, body |-> "success",
                                          message |-> "AI inference API is connected and healthy",
                                          data |-> i.data]])
    /\ DbUnchanged
    /\ UNCHANGED started
    /\ EnvUnchanged

(***************************************************************************)
(* getAvailableModels                                                      *)
(***************************************************************************)
\* inferenceClient.getModels() and the response
getAvailableModels(r, https) ==
    /\ Accepts(r)
    /\ \E http \in https :
        LET m == getModels(http)
            rec == [Called(Arrived(r, "getAvailableModels"), "inference.getModels")
                        EXCEPT !.http = http.kind, !.httpStatus = http.status,
                               !.thrown = IF m.threw THEN [by |-> "getModels",
                                                           cause |-> http.kind,
                                                           message |-> m.message]
                                          ELSE @]
        IN  IF m.threw
            THEN Receive(r, Failed(rec, ApiError(500, <<"Failed to get available models">>)))
            ELSE Receive(r, [rec EXCEPT
                                !.pc = "done",
                                !.resp = [status |-> 200, body |-> "success",
                                          data |-> m.data]])
    /\ DbUnchanged
    /\ EnvUnchanged

(***************************************************************************)
(* getClassificationById                                                   *)
(***************************************************************************)
\* validation, prisma.history.findUnique with the owning user, the response
getClassificationById(r, ids) ==
    /\ Accepts(r)
    /\ \E id \in ids, db \in DbOutcomes :
        LET rec == [Arrived(r, "getClassificationById") EXCEPT !.target = id]
            found == historyFindUnique(history, id)
        IN  IF id = 0
            THEN Receive(r, Failed(rec, ApiError(400, <<"Classification ID is required">>)))
            ELSE IF db = "error"
            THEN Receive(r, Failed(Called(rec, "history.findUnique"),
                                   ApiError(500, <<DbDown>>)))
            ELSE IF found = {}
            THEN Receive(r, Failed(Called(rec, "history.findUnique"),
                                   ApiError(404, <<"Classification not found">>)))
            ELSE LET h == CHOOSE x \in found : TRUE IN
                 Receive(r, [Called(rec, "history.findUnique") EXCEPT
                                !.pc = "done",
                                !.resp = [status |-> 200, body |-> "success",
                                          data |-> [id |-> h.id, userId |-> h.userId,
                                                    image |-> h.image, disease |-> h.disease,
                                                    cropType |-> h.cropType,
                                                    model_response |-> parse(h.model_response),
                                                    genai_response |-> h.genai_response,
                                                    created_at |-> h.created_at,
                                                    user |-> {[id |-> v.id, email |-> v.email,
                                                               fullName |-> v.fullName] :
                                                                v \in {u \in users : u.id = h.userId}}]]])
    /\ DbUnchanged
    /\ EnvUnchanged

(***************************************************************************)
(* updateUser                                                              *)
(***************************************************************************)
\* validation, prisma.user.update and the response: P2025 when there is no
\* such user, P2002 when another user holds the phone number
updateUser(r, ids, names, phones) ==
    /\ Accepts(r)
    /\ \E id \in ids, name \in names, phone \in phones, db \in DbOutcomes :
        LET rec == [Arrived(r, "updateUser") EXCEPT
                        !.target = id, !.fullName = name, !.phoneNumber = phone]
        IN  IF id = 0
            THEN /\ Receive(r, Failed(rec, ApiError(400, <<"User ID is required">>)))
                 /\ UNCHANGED users
            ELSE IF name = UndefS /\ phone = Undef
            THEN /\ Receive(r, Failed(rec, ApiError(400, <<"No fields to update">>)))
                 /\ UNCHANGED users
            ELSE IF db = "error"
            THEN /\ Receive(r, Failed(Called(rec, "user.update"), ApiError(500, <<DbDown>>)))
                 /\ UNCHANGED users
            ELSE IF ~\E u \in users : u.id = id
            THEN /\ Receive(r, Failed(Called(rec, "user.update"),
                                      ApiError(404, <<"User not found">>)))
                 /\ UNCHANGED users
            ELSE IF ~phoneFree(users, id, phone)
            THEN /\ Receive(r, Failed(Called(rec, "user.update"),
                                      ApiError(400, <<"Phone number already in use">>)))
                 /\ UNCHANGED users
            ELSE /\ users' = userUpdate(users, id, name, phone)
                 /\ Receive(r, [Called(rec, "user.update") EXCEPT
                                  !.pc = "done",
                                  !.resp = [status |-> 200, body |-> "success",
                                            message |-> "User updated successfully",
                                            data |-> CHOOSE u \in userUpdate(users, id, name, phone) :
                                                        u.id = id]])
    /\ UNCHANGED <<history, store, nextUid, nextHid, nextKey, now>>
    /\ EnvUnchanged

(***************************************************************************)
(* getUserHistory                                                          *)
(***************************************************************************)
userSummary(u) == [id |-> u.id, email |-> u.email, fullName |-> u.fullName]

\* the fields selected by getUserHistory, model_response parsed
historyItem(h) ==
    [id |-> h.id, image |-> h.image, disease |-> h.disease, cropType |-> h.cropType,
     model_response |-> parse(h.model_response),
     genai_response |-> h.genai_response, created_at |-> h.created_at]

\* a listing that gets or creates the user the way classifyImage does
getUserHistoryUpserts(r, emails, pages, limits) ==
    /\ Accepts(r)
    /\ \E email \in emails, page \in pages, limit \in limits :
        LET rec == [Arrived(r, "getUserHistory") EXCEPT
                        !.email = email, !.page = page, !.limit = limit]
            found == userFindUnique(users, email)
            user == IF found = {} THEN newUser(nextUid, email) ELSE CHOOSE u \in found : TRUE
        IN  IF FalsyS(email)
            THEN /\ Receive(r, Failed(rec, ApiError(400, <<"Email is required">>)))
                 /\ UNCHANGED <<users, nextUid>>
            ELSE /\ users' = users \cup {user}
                 /\ nextUid' = IF found = {} THEN nextUid + 1 ELSE nextUid
                 /\ Receive(r, [Called(rec, "user.findUnique") EXCEPT
                                    !.pc = "queries", !.user = user])
    /\ UNCHANGED <<history, store, nextHid, nextKey, now>>
    /\ EnvUnchanged

\* Request received: validation, then prisma.user.findUnique
getUserHistory(r, emails, pages, limits) ==
    /\ Accepts(r)
    /\ \E email \in emails, page \in pages, limit \in limits, db \in DbOutcomes :
        LET rec == [Arrived(r, "getUserHistory") EXCEPT
                        !.email = email, !.page = page, !.limit = limit]
            found == userFindUnique(users, email)
        IN  IF FalsyS(email)
            THEN Receive(r, Failed(rec, ApiError(400, <<"Email is required">>)))
            ELSE IF db = "error"
            THEN Receive(r, Failed(Called(rec, "user.findUnique"), ApiError(500, <<DbDown>>)))
            ELSE IF found = {}
            THEN Receive(r, [Called(rec, "user.findUnique") EXCEPT
                                !.pc = "done",
                                !.resp = [status |-> 200, body |-> "success",
                                          message |-> "No history found for this email",
                                          data |-> [email |-> email, history |-> <<>>]]])
            ELSE Receive(r, [Called(rec, "user.findUnique") EXCEPT
                                !.pc = "queries",
                                !.user = CHOOSE u \in found : TRUE])
    /\ DbUnchanged
    /\ EnvUnchanged

\* Promise.all([prisma.history.findMany, prisma.history.count]) and the 200
\* response.  The two queries are taken together: this handler is run only
\* where no request writes, so the order the database runs them in cannot
\* show.  A negative skip is refused by Prisma.
getUserHistoryQueries(r) ==
    /\ req[r].kind = "getUserHistory"
    /\ req[r].pc = "queries"
    /\ \E db \in DbOutcomes, o \in newestFirst(historyOfUser(history, req[r].user.id)) :
        LET rec == Called(Called(req[r], "history.findMany"), "history.count")
            page == parseIntOr(rec.page, 1)
            limit == parseIntOr(rec.limit, 10)
            skip == skipOf(page, limit)
            total == Cardinality(historyOfUser(history, rec.user.id))
        IN  IF db = "error"
            THEN Continue(r, Failed(rec, ApiError(500, <<DbDown>>)))
            ELSE IF skip < 0 \/ limit < 0
            THEN Continue(r, Failed(rec, ApiError(500,
                        <<"Invalid value for skip argument: Value can only be positive">>)))
            ELSE Continue(r, [rec EXCEPT
                    !.pc = "done",
                    !.resp = [status |-> 200, body |-> "success",
                              data |-> [user |-> userSummary(rec.user),
                                        history |-> [i \in 1..Len(skipTake(o, skip, limit)) |->
                                                        historyItem(skipTake(o, skip, limit)[i])],
                                        pagination |-> [page |-> page, limit |-> limit,
                                                        total |-> total,
                                                        totalPages |-> ceilDiv(total, limit)]]]])
    /\ DbUnchanged
    /\ UNCHANGED started
    /\ EnvUnchanged

(***************************************************************************)
(* getUserStats                                                            *)
(***************************************************************************)
\* Request received: validation, then prisma.user.findUnique
getUserStats(r, emails) ==
    /\ Accepts(r)
    /\ \E email \in emails, db \in DbOutcomes :
        LET rec == [Arrived(r, "getUserStats") EXCEPT !.email = email]
            found == userFindUnique(users, email)
        IN  IF FalsyS(email)
            THEN Receive(r, Failed(rec, ApiError(400, <<"Email is required">>)))
            ELSE IF db = "error"
            THEN Receive(r, Failed(Called(rec, "user.findUnique"), ApiError(500, <<DbDown>>)))
            ELSE IF found = {}
            THEN Receive(r, [Called(rec, "user.findUnique") EXCEPT
                                !.pc = "done",
                                !.resp = [status |-> 200, body |-> "success",
                                          data |-> [email |-> email,
                                                    stats |-> [totalScans |-> 0,
                                                               diseaseDistribution |-> {},
                                                               cropDistribution |-> {},
                                                               recentScans |-> <<>>]]]])
            ELSE Receive(r, [Called(rec, "user.findUnique") EXCEPT
                                !.pc = "queries",
                                !.user = CHOOSE u \in found : TRUE])
    /\ DbUnchanged
    /\ EnvUnchanged

\* Promise.all of count, the two groupBy and the five latest rows, and the
\* 200 response; the distributions are arrays whose order groupBy does not
\* fix, kept here as sets
getUserStatsQueries(r) ==
    /\ req[r].kind = "getUserStats"
    /\ req[r].pc = "queries"
    /\ \E db \in DbOutcomes, o \in newestFirst(historyOfUser(history, req[r].user.id)) :
        LET rec == Called(Called(Called(req[r], "history.count"), "history.groupBy"),
                          "history.findMany")
            recent == skipTake(o, 0, 5)
        IN  IF db = "error"
            THEN Continue(r, Failed(rec, ApiError(500, <<DbDown>>)))
            ELSE Continue(r, [rec EXCEPT
                    !.pc = "done",
                    !.resp = [status |-> 200, body |-> "success",
                              data |-> [user |-> userSummary(rec.user),
                                        stats |->
                                          [totalScans |->
                                              Cardinality(historyOfUser(history, rec.user.id)),
                                           diseaseDistribution |->
                                              diseaseGroups(history, rec.user.id),
                                           cropDistribution |->
                                              cropGroups(history, rec.user.id),
                                           recentScans |->
                                              [i \in 1..Len(recent) |->
                                                 [id |-> recent[i].id,
                                                  disease |-> recent[i].disease,
                                                  cropType |-> recent[i].cropType,
                                                  created_at |-> recent[i].created_at]]]]]])
    /\ DbUnchanged
    /\ UNCHANGED started
    /\ EnvUnchanged

(***************************************************************************)
(* The server: requests of all kinds, MaxReqs of them at a time.           *)
(***************************************************************************)
ClassifyEmails == {UndefS, NotAnEmail, EmailA, EmailB}
ClassifyHttps == {HttpOk(ResFull), HttpOk(ResClass), HttpError("ECONNABORTED"),
                  HttpError("ECONNREFUSED")}
TargetIds == 1..2
OwnerEmails == {EmailA, EmailB}

Init ==
    /\ users = {}
    /\ history = {}
    /\ store = {}
    /\ nextUid = 1
    /\ nextHid = 1
    /\ nextKey = 1
    /\ now = 1
    /\ nodeEnv = "production"
    /\ genaiClient \in {Null, "client"}
    /\ started = 0
    /\ last = IdleReq
    /\ snap = [users |-> {}, history |-> {}]
    /\ req = [r \in Reqs |-> IdleReq]

Next ==
    \E r \in Reqs :
        \/ classifyImage(r, BOOLEAN, ClassifyEmails, {UndefS})
        \/ classifyCreateUser(r)
        \/ classifyUpload(r)
        \/ classifyPredict(r, ClassifyHttps)
        \/ classifyInsights(r)
        \/ classifySave(r, {1})
        \/ deleteClassification(r, TargetIds, OwnerEmails)
        \/ deleteClassificationDelete(r)
        \/ deleteUser(r, TargetIds)

Spec == Init /\ [][Next]_vars

(***************************************************************************)
(* One client that sends its requests one after the other, with e-mail     *)
(* inputs of every shape the format check distinguishes.                   *)
(***************************************************************************)
AllEmails == {UndefS, NotAnEmail, NoTld, TwoAts, WithSpace, EmailA, EmailB}
SeqHttps == {HttpOk(ResClass), HttpStatus(500), HttpError("ETIMEDOUT"),
             HttpError("ECONNREFUSED")}

SeqDeleteEmails == {UndefS, EmailA, EmailB}

NextSeq ==
    \/ classifyImage(1, BOOLEAN, AllEmails, {UndefS})
    \/ classifyCreateUser(1)
    \/ classifyUpload(1)
    \/ classifyPredict(1, SeqHttps)
    \/ classifyInsights(1)
    \/ classifySave(1, {1})
    \/ deleteClassification(1, TargetIds, SeqDeleteEmails)
    \/ deleteClassificationDelete(1)
    \/ deleteUser(1, TargetIds)

SpecSeq == Init /\ [][NextSeq]_vars

(***************************************************************************)
(* The same, started under any NODE_ENV.                                   *)
(***************************************************************************)
NodeEnvs == {"production", "development", "test", Undef}

InitEnv ==
    /\ users = {}
    /\ history = {}
    /\ store = {}
    /\ nextUid = 1
    /\ nextHid = 1
    /\ nextKey = 1
    /\ now = 1
    /\ nodeEnv \in NodeEnvs
    /\ genaiClient \in {Null, "client"}
    /\ started = 0
    /\ last = IdleReq
    /\ snap = [users |-> {}, history |-> {}]
    /\ req = [r \in Reqs |-> IdleReq]

SpecEnv == InitEnv /\ [][NextSeq]_vars

(***************************************************************************)
(* Health requests, one at a time.                                         *)
(***************************************************************************)
HealthHttps ==
    {HttpStatus(n) : n \in {200, 204, 301, 404, 500, 503}} \cup
    {HttpError(c) : c \in {"ECONNREFUSED", "ETIMEDOUT", "ECONNABORTED", "ENOTFOUND",
                           "ECONNRESET"}}

InfoHttps == {HttpStatus(200), HttpStatus(500), HttpError("ETIMEDOUT")}

NextHealth ==
    \/ checkInferenceHealth(1, HealthHttps)
    \/ checkInferenceHealthInfo(1, InfoHttps)

SpecHealth == InitEnv /\ [][NextHealth]_vars

(***************************************************************************)
(* One read request on tables written earlier: two users and up to         *)
(* MaxRows History rows of theirs, some written in the same millisecond.   *)
(***************************************************************************)
UserA == newUser(1, EmailA)
UserB == newUser(2, EmailB)
EmailC == <<"c", "@", "x", ".", "y">>

\* diseaseA was found on maize, diseaseB on a crop the client did not name
RowChoices == [userId : {UserA.id, UserB.id}, disease : {"diseaseA", "diseaseB"},
               tick : {0, 1}]

\* the table whose row i was written by classifyImage as f[i] says
tableOf(n, f) ==
    {[id |-> i,
      userId |-> f[i].userId,
      image |-> s3Url(s3Key("crop-images", i)),
      disease |-> f[i].disease,
      cropType |-> IF f[i].disease = "diseaseA" THEN Maize ELSE NullS,
      model_response |-> stringify([NoResult EXCEPT !.predicted_class = f[i].disease]),
      genai_response |-> GeminiText,
      created_at |-> 1 + Cardinality({j \in 2..i : f[j].tick = 1})] : i \in 1..n}

ReadTables == UNION {{tableOf(n, f) : f \in [1..n -> RowChoices]} : n \in 0..MaxRows}

PageInputs == {UndefS, <<"0">>, <<"1">>, <<"2">>, <<"3", "x">>, <<"-", "1">>}
LimitInputs == {UndefS, <<"0">>, <<"1">>, <<"2">>}

ReadEmails == {UndefS, EmailA, EmailB, EmailC}

InitRead ==
    /\ users = {UserA, UserB}
    /\ history \in ReadTables
    /\ store = {s3Key("crop-images", i) : i \in 1..MaxRows}
    /\ nextUid = 3
    /\ nextHid = MaxRows + 1
    /\ nextKey = MaxRows + 1
    /\ now = MaxRows + 1
    /\ nodeEnv = "production"
    /\ genaiClient = "client"
    /\ started = MaxStarts - 1
    /\ req = [r \in Reqs |-> IdleReq]
    /\ last = IdleReq
    /\ snap = [users |-> users, history |-> history]

NextRead ==
    \/ getUserHistory(1, ReadEmails, PageInputs, LimitInputs)
    \/ getUserHistoryQueries(1)
    \/ getUserStats(1, ReadEmails)
    \/ getUserStatsQueries(1)

SpecRead == InitRead /\ [][NextRead]_vars

(***************************************************************************)
(* One writing request on tables written earlier: the same tables, where   *)
(* earlier updateUser calls may have given the users a phone number.       *)
(***************************************************************************)
PhoneA == "0700000001"
PhoneB == "0700000002"

InitWrite ==
    /\ \E pa \in {Null, PhoneA}, pb \in {Null, PhoneB} :
            users = {[UserA EXCEPT !.phoneNumber = pa], [UserB EXCEPT !.phoneNumber = pb]}
    /\ history \in ReadTables
    /\ store = {s3Key("crop-images", i) : i \in 1..MaxRows}
    /\ nextUid = 3
    /\ nextHid = MaxRows + 1
    /\ nextKey = MaxRows + 1
    /\ now = MaxRows + 1
    /\ nodeEnv = "production"
    /\ genaiClient = "client"
    /\ started = MaxStarts - 1
    /\ req = [r \in Reqs |-> IdleReq]
    /\ last = IdleReq
    /\ snap = [users |-> users, history |-> history]

UserIds == {UserA.id, UserB.id, 3}
RowIds == 1..(MaxRows + 1)
NameInputs == {UndefS, <<"n">>}
PhoneInputs == {Undef, Null, PhoneA, PhoneB}

NextWrite ==
    \/ deleteUser(1, UserIds)
    \/ deleteClassification(1, RowIds, OwnerEmails)
    \/ deleteClassificationDelete(1)
    \/ updateUser(1, UserIds, NameInputs, PhoneInputs)

SpecWrite == InitWrite /\ [][NextWrite]_vars

(***************************************************************************)
(* Two writing requests at the same time on tables written earlier.        *)
(***************************************************************************)
RaceHttps == {HttpOk(ResFull), HttpError("ETIMEDOUT")}
RaceEmails == {EmailA, EmailC}
RaceRows == [userId : {UserA.id, UserB.id}, disease : {"diseaseA"}, tick : {1}]
RaceTables == UNION {{tableOf(n, f) : f \in [1..n -> RaceRows]} : n \in 1..(MaxRows - 1)}

InitRace ==
    /\ users = {UserA, UserB}
    /\ history \in RaceTables
    /\ store = {s3Key("crop-images", i) : i \in 1..MaxRows}
    /\ nextUid = 3
    /\ nextHid = MaxRows + 1
    /\ nextKey = MaxRows + 1
    /\ now = MaxRows + 1
    /\ nodeEnv = "production"
    /\ genaiClient = "client"
    /\ started = MaxStarts - 2
    /\ req = [r \in Reqs |-> IdleReq]
    /\ last = IdleReq
    /\ snap = [users |-> users, history |-> history]

NextRace ==
    \E r \in Reqs :
        \/ deleteClassification(r, 1..MaxRows, OwnerEmails)
        \/ deleteClassificationDelete(r)
        \/ deleteUser(r, UserIds)
        \/ classifyImage(r, {TRUE}, RaceEmails, {UndefS})
        \/ classifyCreateUser(r)
        \/ classifyUpload(r)
        \/ classifyPredict(r, RaceHttps)
        \/ classifyInsights(r)
        \/ classifySave(r, {1})

SpecRace == InitRace /\ [][NextRace]_vars

(***************************************************************************)
(* Two requests at the same time, of the kinds that work on the tables,    *)
(* where every call of a collaborator that was started returns or fails:   *)
(* the step after each await is taken at some time.  Requests need not     *)
(* arrive.  The two queries of a Promise.all are one step here, which is   *)
(* enough to tell whether the handler answers.                             *)
(***************************************************************************)
InitLive ==
    /\ users = {UserA, UserB}
    /\ history = tableOf(MaxRows - 1, [i \in 1..(MaxRows - 1) |->
                        [userId |-> UserA.id, disease |-> "diseaseA", tick |-> 1]])
    /\ store = {s3Key("crop-images", i) : i \in 1..MaxRows}
    /\ nextUid = 3
    /\ nextHid = MaxRows + 1
    /\ nextKey = MaxRows + 1
    /\ now = MaxRows + 1
    /\ nodeEnv = "production"
    /\ genaiClient = "client"
    /\ started = MaxStarts - 2
    /\ req = [r \in Reqs |-> IdleReq]
    /\ last = IdleReq
    /\ snap = [users |-> users, history |-> history]

LiveEmails == {UndefS, EmailA, EmailC}
LiveIds == {1, MaxRows}

\* a request arrives and its handler runs up to its first await
Arrival(r) ==
    \/ classifyImage(r, BOOLEAN, RaceEmails, {UndefS})
    \/ getUserHistory(r, LiveEmails, {UndefS}, {UndefS})
    \/ getClassificationById(r, LiveIds)
    \/ getUserStats(r, LiveEmails)
    \/ deleteClassification(r, LiveIds, OwnerEmails)

\* the call the handler in slot r awaits returns or fails, and the handler
\* runs up to its next await or to its response
Resumes(r) ==
    \/ classifyCreateUser(r)
    \/ classifyUpload(r)
    \/ classifyPredict(r, RaceHttps)
    \/ classifyInsights(r)
    \/ classifySave(r, {1})
    \/ getUserHistoryQueries(r)
    \/ getUserStatsQueries(r)
    \/ deleteClassificationDelete(r)

NextLive == \E r \in Reqs : Arrival(r) \/ Resumes(r)

SpecLive == InitLive /\ [][NextLive]_vars /\ \A r \in Reqs : WF_vars(Resumes(r))

(***************************************************************************)
(* One classify request, with any crop type and any shape of result, for  *)
(* an email that has a user or has none.                                   *)
(***************************************************************************)
MaizeBlank == <<"m", "a", "i", "z", "e", " ">>
CropTypes == {UndefS, <<>>, Maize, MaizeCaps, MaizeBlank, Bean}

\* results that lack some of the fields the handler reads
ResNone == [NoResult EXCEPT !.confidence = 0]
ResCrop == [NoResult EXCEPT !.confidence = 8000, !.crop_type = Bean]
ResultShapes == {ResFull, ResClass, ResNone, ResCrop}

\* what the exchange with the inference service ends in
ShapeHttps == {HttpOk(d) : d \in ResultShapes} \cup {HttpError("ETIMEDOUT")}

InitOne ==
    /\ users \in {{}, {UserA}}
    /\ history = {}
    /\ store = {}
    /\ nextUid = 2
    /\ nextHid = 1
    /\ nextKey = 1
    /\ now = 1
    /\ nodeEnv = "production"
    /\ genaiClient \in {Null, "client"}
    /\ started = MaxStarts - 1
    /\ req = [r \in Reqs |-> IdleReq]
    /\ last = IdleReq
    /\ snap = [users |-> users, history |-> history]

NextClassify ==
    \/ classifyImage(1, BOOLEAN, {EmailA}, CropTypes)
    \/ classifyCreateUser(1)
    \/ classifyUpload(1)
    \/ classifyPredict(1, ShapeHttps)
    \/ classifyInsights(1)
    \/ classifySave(1, {1})

SpecClassify == InitOne /\ [][NextClassify]_vars

(***************************************************************************)
(* One request of any kind on tables written earlier.                      *)
(***************************************************************************)
AllHttps == {HttpOk(ResFull), HttpStatus(500), HttpError("ECONNREFUSED"),
             HttpError("ETIMEDOUT"), HttpError("ECONNABORTED")}

SaveTicks == {0, 1}
AllPages == {UndefS, <<"2">>}
AllLimits == {UndefS, <<"1">>}
AllPhones == {Undef, PhoneA}
AllHealthHttps == {HttpStatus(200), HttpStatus(503), HttpError("ECONNREFUSED")}

NextAll ==
    \/ classifyImage(1, BOOLEAN, RaceEmails, {UndefS})
    \/ classifyCreateUser(1)
    \/ classifyUpload(1)
    \/ classifyPredict(1, AllHttps)
    \/ classifyInsights(1)
    \/ classifySave(1, SaveTicks)
    \/ getUserHistory(1, LiveEmails, AllPages, AllLimits)
    \/ getUserHistoryQueries(1)
    \/ getClassificationById(1, RowIds)
    \/ getUserStats(1, LiveEmails)
    \/ getUserStatsQueries(1)
    \/ checkInferenceHealth(1, AllHealthHttps)
    \/ checkInferenceHealthInfo(1, AllHttps)
    \/ getAvailableModels(1, AllHttps)
    \/ deleteClassification(1, RowIds, OwnerEmails)
    \/ deleteClassificationDelete(1)
    \/ updateUser(1, UserIds, NameInputs, AllPhones)
    \/ deleteUser(1, UserIds)

SpecAll == InitRead /\ [][NextAll]_vars

(***************************************************************************)
(* Vocabulary of the properties.                                           *)
(***************************************************************************)
\* the number of requests answered so far
Answered == started - Cardinality({q \in Reqs : InFlight(q)})

\* this step writes the response of a request, which is last'
Completes == Answered' = Answered + 1

IsError(resp) == resp.status \in 400..599

\* the request failed because a database call was not answered
DbFailed(rec) ==
    /\ IsError(rec.resp)
    /\ rec.resp.error_message[Len(rec.resp.error_message)] = DbDown

\* the History rows that carry the image uploaded by request rec
RowsOf(hist, rec) == {h \in hist : rec.image # <<>> /\ h.image = rec.image}

(***************************************************************************)
(* Properties of classifyImage.                                            *)
(***************************************************************************)
\* C1: a classify call that succeeds, sent while no other request runs,
\* creates exactly one User with the request's email when the tables held
\* none on arrival and no User when they held one, and in both cases exactly
\* one History row, owned by the user with that email; it removes nothing.
C1_FirstAndSecondCall ==
    [][(Completes /\ last'.kind = "classify" /\ last'.resp.status = 200) =>
        LET e == last'.email
            known == {u \in snap.users : u.email = e}
            newU == users' \ snap.users
            newH == history' \ snap.history
        IN  /\ Cardinality(newU) = IF known = {} THEN 1 ELSE 0
            /\ \A u \in newU : u.email = e
            /\ Cardinality(newH) = 1
            /\ \A h \in newH : \E u \in users' : u.id = h.userId /\ u.email = e
            /\ \A h \in newH : known # {} => h.userId \in {u.id : u \in known}
            /\ snap.users \subseteq users'
            /\ snap.history \subseteq history'
      ]_vars

\* a second successful call for the same email: one user, two rows of theirs
C1_SecondCallDone ==
    /\ last.kind = "classify"
    /\ last.resp.status = 200
    /\ \E u \in snap.users : u.email = last.email
    /\ Cardinality(users) = 1
    /\ Cardinality(history) = 2
    /\ \A h \in history : h.userId = last.user.id

\* the e-mail inputs that do not have the shape local@domain.tld
MalformedEmails == {NotAnEmail, NoTld, TwoAts, WithSpace}

InvalidClassify(rec) ==
    ~rec.file \/ rec.email = UndefS \/ rec.email \in MalformedEmails

\* C3: a classify request without image, without email or with a malformed
\* email is answered 400 in the step it arrives in, with no collaborator
\* called and the tables and the object store unchanged; no such request is
\* ever found waiting for a collaborator.
C3_InvalidInputRejectedFirst ==
    [][/\ \A r \in Reqs :
            (req'[r].kind = "classify" /\ req'[r].pc # "idle") => ~InvalidClassify(req'[r])
       /\ (Completes /\ last'.kind = "classify" /\ InvalidClassify(last')) =>
            /\ last'.resp.status = 400
            /\ last'.calls = <<>>
            /\ started' = started + 1
            /\ UNCHANGED <<users, history, store, nextUid, nextHid, nextKey>>
      ]_vars

C3_NotAnEmailRejected ==
    /\ last.kind = "classify"
    /\ last.file
    /\ last.email = NotAnEmail
    /\ last.resp.status = 400
    /\ last.calls = <<>>

\* the fallback text: not empty, and naming the condition and the confidence
\* the result carries
FallbackNames(text, result) ==
    /\ text # NoInsights
    /\ text.src = "fallback"
    /\ result.disease # Undef => text.condition = result.disease
    /\ (result.disease = Undef /\ result.predicted_class # Undef) =>
            text.condition = result.predicted_class
    /\ result.confidence > 0 => text.confidence = result.confidence

InsightsFailed(rec) == rec.genai \in {"unconfigured", "threw"}

C2_Outcome(rec, hist) ==
    /\ rec.resp.status = 200
    /\ FallbackNames(rec.resp.data.insights, rec.result)
    /\ \E h \in hist :
        /\ RowsOf(hist, rec) = {h}
        /\ h.genai_response = rec.resp.data.insights

C4_RecordOrError ==
    [][/\ (Completes /\ last'.kind = "classify") =>
            LET newH == history' \ history IN
            IF last'.resp.status = 200
            THEN \E h \in newH :
                    /\ newH = {h}
                    /\ h.id = last'.resp.data.id
                    /\ RowsOf(history', last') = {h}
            ELSE /\ IsError(last'.resp)
                 /\ newH = {}
       /\ (last'.kind = "classify" /\ IsError(last'.resp)) => RowsOf(history', last') = {}
       /\ \A r \in Reqs :
            (req'[r].kind = "classify" /\ req'[r].pc # "idle" /\ req'[r] # req[r]) =>
                history' = history
      ]_vars

\* record persistence failed after a successful upload: an error, and no row
C4_SaveFailedNoRow ==
    /\ last.kind = "classify"
    /\ IsError(last.resp)
    /\ last.calls # <<>>
    /\ last.calls[Len(last.calls)] = "history.create"
    /\ keyOfUrl(last.image) \in store
    /\ RowsOf(history, last) = {}

TimedOut(rec) == rec.http \in {"ETIMEDOUT", "ECONNABORTED"}

\* C5: when the inference call timed out the answer is an error with status
\* 500 or 503, the request has no History row, and the blob it uploaded is
\* in the object store from then on.
C5_TimeoutLeavesOrphanBlob ==
    (last.kind = "classify" /\ TimedOut(last)) =>
        /\ last.resp.status \in {500, 503}
        /\ RowsOf(history, last) = {}
        /\ keyOfUrl(last.image) \in store

C5_TimedOut ==
    /\ last.kind = "classify"
    /\ TimedOut(last)
    /\ IsError(last.resp)
    /\ keyOfUrl(last.image) \in store

\* C6: no two User rows have the same email.
C6_EmailUnique ==
    \A u1 \in users, u2 \in users : u1.email = u2.email => u1 = u2

LostRace(rec) ==
    /\ rec.kind = "classify"
    /\ IsError(rec.resp)
    /\ rec.calls = <<"user.findUnique", "user.create">>
    /\ rec.resp.error_message[Len(rec.resp.error_message)] = UniqueViolation

\* two requests passed the lookup for the same new email; one created the
\* user, the create of the other was refused
C6_RaceOnCreate ==
    /\ LostRace(last)
    /\ \E u \in users : u.email = last.email

\* C7: the request that loses the uniqueness race on user creation is
\* answered 409.
C7_LoserGetsConflict == LostRace(last) => last.resp.status = 409

(***************************************************************************)
(* Properties of deleteClassification.                                     *)
(***************************************************************************)
\* C8: deleteClassification with an email, on an existing row whose owner
\* has another email, is answered 403 and changes neither the tables nor
\* the object store (given that the lookup is answered).
C8_WrongEmailForbidden ==
    [][(/\ Completes
        /\ last'.kind = "deleteClassification"
        /\ ~FalsyS(last'.email)
        /\ ~DbFailed(last')
        /\ \E h \in history : /\ h.id = last'.target
                              /\ \E u \in users : u.id = h.userId /\ u.email # last'.email) =>
            /\ last'.resp.status = 403
            /\ UNCHANGED <<users, history, store>>
      ]_vars

C8_ForbiddenRowKept ==
    /\ last.kind = "deleteClassification"
    /\ last.resp.status = 403
    /\ \E h \in history : h.id = last.target

(***************************************************************************)
(* Properties of getUserHistory and getUserStats.                          *)
(***************************************************************************)
\* the number a client means by a query value written as a plain numeral
Numerals == (<<"1">> :> 1) @@ (<<"2">> :> 2)

\* the page and limit a request asks for: the numeral, or the default
Asked(raw, dflt) == IF raw = UndefS THEN dflt ELSE Numerals[raw]

PlainPaging(rec) ==
    /\ rec.page \in DOMAIN Numerals \cup {UndefS}
    /\ rec.limit \in DOMAIN Numerals \cup {UndefS}

Owned(email) == {h \in history : \E u \in users : u.id = h.userId /\ u.email = email}

\* C9: getUserHistory for an existing user with N rows, page p >= 1 and
\* limit L >= 1 (page 1 and limit 10 when omitted), answers 200 with the
\* rows ranked (p-1)*L+1 .. min(p*L, N) newest first (rows of the same
\* instant in either order), pagination.total = N and
\* pagination.totalPages = ceil(N / L), given that the database answers.
C9_Pagination ==
    [][(/\ Completes
        /\ last'.kind = "getUserHistory"
        /\ \E u \in users : u.email = last'.email
        /\ PlainPaging(last')
        /\ ~DbFailed(last')) =>
            LET p == Asked(last'.page, 1)
                L == Asked(last'.limit, 10)
                mine == Owned(last'.email)
                N == Cardinality(mine)
                first == (p - 1) * L + 1
                final == IF p * L < N THEN p * L ELSE N
                got == last'.resp.data.history
                pg == last'.resp.data.pagination
            IN  /\ last'.resp.status = 200
                /\ pg.page = p /\ pg.limit = L /\ pg.total = N
                /\ pg.totalPages * L >= N /\ (pg.totalPages - 1) * L < N
                /\ Len(got) = (IF final >= first THEN final - first + 1 ELSE 0)
                /\ \A i, j \in 1..Len(got) : i # j => got[i].id # got[j].id
                /\ \A i \in 1..Len(got) : \E h \in mine :
                      /\ h.id = got[i].id
                      /\ h.created_at = got[i].created_at
                      /\ Cardinality({m \in mine : m.created_at > h.created_at})
                            <= first + i - 2
                      /\ Cardinality({m \in mine : m.created_at >= h.created_at})
                            >= first + i - 1
      ]_vars

\* the second page of two, of a user with three rows
C9_SecondPageServed ==
    /\ last.kind = "getUserHistory"
    /\ last.resp.status = 200
    /\ last.page = <<"2">> /\ last.limit = <<"2">>
    /\ Cardinality(Owned(last.email)) = 3
    /\ Len(last.resp.data.history) = 1
    /\ last.resp.data.pagination.totalPages = 2

\* C10: getUserStats for an existing user answers 200 with totalScans equal
\* to the number of that user's rows and a diseaseDistribution holding, for
\* each disease label among those rows, exactly one entry whose count is the
\* number of that user's rows with the label, and no other entry; rows of
\* other users are not counted (given that the database answers).
C10_StatsOfThisUser ==
    [][(/\ Completes
        /\ last'.kind = "getUserStats"
        /\ \E u \in users : u.email = last'.email
        /\ ~DbFailed(last')) =>
            LET mine == Owned(last'.email)
                stats == last'.resp.data.stats
            IN  /\ last'.resp.status = 200
                /\ stats.totalScans = Cardinality(mine)
                /\ \A d \in {h.disease : h \in mine} :
                      /\ Cardinality({e \in stats.diseaseDistribution : e.disease = d}) = 1
                      /\ \A e \in stats.diseaseDistribution : e.disease = d =>
                            e.count = Cardinality({h \in mine : h.disease = d})
                /\ \A e \in stats.diseaseDistribution :
                      e.disease \in {h.disease : h \in mine}
      ]_vars

\* statistics of a user with two diseases while another user has rows too
C10_TwoDiseasesCounted ==
    /\ last.kind = "getUserStats"
    /\ last.resp.status = 200
    /\ last.user # NoUser
    /\ Cardinality(last.resp.data.stats.diseaseDistribution) = 2
    /\ \E h \in history : h.userId # last.user.id

\* C11: getUserHistory with an email that no User has is answered 200 with
\* an empty history list, whatever page and limit are (omitted, zero, plain,
\* followed by junk, negative), given that the lookup is answered.
C11_UnknownEmailEmptyList ==
    [][(/\ Completes
        /\ last'.kind = "getUserHistory"
        /\ ~FalsyS(last'.email)
        /\ ~\E u \in users : u.email = last'.email
        /\ ~DbFailed(last')) =>
            /\ last'.resp.status = 200
            /\ DOMAIN last'.resp.data = {"email", "history"}
            /\ last'.resp.data.history = <<>>
            /\ last'.resp.data.email = last'.email
      ]_vars

\* an unknown email asked with a negative page while other users have rows
C11_UnknownEmailServed ==
    /\ last.kind = "getUserHistory"
    /\ last.email = EmailC
    /\ last.page = <<"-", "1">>
    /\ last.resp.status = 200
    /\ history # {}

(***************************************************************************)
(* Frame of a failed upload.                                               *)
(***************************************************************************)
UploadFailed(rec) ==
    /\ rec.kind = "classify"
    /\ rec.calls # <<>>
    /\ rec.calls[Len(rec.calls)] = "s3.upload"
    /\ IsError(rec.resp)

CreatedUser(rec) ==
    \E i \in 1..Len(rec.calls) : rec.calls[i] = "user.create"

\* a classify request takes a step that comes before its upload: it is
\* received, or its user is created
BeforeUpload ==
    \E q \in Reqs : /\ req'[q] # req[q]
                    /\ req'[q].kind = "classify"
                    /\ req'[q].pc \in {"createUser", "upload"}

\* C12 as stated: a classify request whose upload fails, sent while no other
\* request runs, is answered with an error and leaves the User table, the
\* object store and the History table as they were when it arrived (the
\* object store: unchanged by each of its steps).
C12_UploadFailureChangesNothing ==
    [][/\ (Completes /\ UploadFailed(last')) =>
            /\ users' = snap.users
            /\ store' = store
            /\ history' = snap.history
       /\ BeforeUpload => store' = store
      ]_vars

\* C12 amended: it leaves the object store (unchanged by each of its steps)
\* and the History table as they were, and the User table as it was except for the user that step 1 of
\* this request created when the email had none.
C12_UploadFailureKeepsCreatedUser ==
    [][/\ BeforeUpload => store' = store
       /\ (Completes /\ UploadFailed(last')) =>
            /\ store' = store
            /\ history' = snap.history
            /\ users' = snap.users \cup
                    (IF CreatedUser(last') THEN {newUser(nextUid - 1, last'.email)} ELSE {})
            /\ CreatedUser(last') <=> ~\E u \in snap.users : u.email = last'.email
      ]_vars

\* an upload failed right after step 1 had created the user
C12_UploadFailedAfterCreate ==
    /\ UploadFailed(last)
    /\ CreatedUser(last)
    /\ \E u \in users : u.email = last.email

(***************************************************************************)
(* Error kinds of a failed inference call.                                 *)
(***************************************************************************)
InferenceFailed(rec) ==
    /\ rec.kind = "classify"
    /\ rec.calls # <<>>
    /\ rec.calls[Len(rec.calls)] = "inference.predict"
    /\ IsError(rec.resp)

\* the cause of the failure: what the HTTP exchange with the service did
FailureKind(rec) ==
    CASE rec.http = "ECONNREFUSED" -> "UpstreamUnavailable"
      [] rec.http \in {"ETIMEDOUT", "ECONNABORTED"} -> "UpstreamTimeout"
      [] OTHER -> "UpstreamFailure"

\* C13: a classify request whose inference call fails is answered with one
\* of the statuses 502, 503 and 500, and two such requests that failed for
\* different causes (refused, timed out, other) are answered with different
\* statuses and different messages.
C13_KindsHaveOwnStatus ==
    [][(Completes /\ InferenceFailed(last')) =>
            /\ last'.resp.status \in {500, 502, 503}
            /\ (InferenceFailed(last) /\ FailureKind(last) # FailureKind(last')) =>
                    /\ last'.resp.error_message # last.resp.error_message
                    /\ last'.resp.status # last.resp.status
      ]_vars

(***************************************************************************)
(* Properties of deleteUser and of a successful deleteClassification.      *)
(***************************************************************************)
\* C14: deleteUser(id) of an existing user is answered 200 and removes
\* exactly that User and the History rows whose userId is id, leaving the
\* other users and their rows as they were; deleteUser of an id that no
\* user has is answered 404 and changes no table (given that the database
\* answers).
C14_DeleteUserCascades ==
    [][(/\ Completes
        /\ last'.kind = "deleteUser"
        /\ last'.target # 0
        /\ ~DbFailed(last')) =>
            IF \E u \in users : u.id = last'.target
            THEN /\ last'.resp.status = 200
                 /\ users' = {u \in users : u.id # last'.target}
                 /\ history' = {h \in history : h.userId # last'.target}
            ELSE /\ last'.resp.status = 404
                 /\ UNCHANGED <<users, history, store>>
      ]_vars

\* a user with rows was deleted while another user keeps rows
C14_UserWithRowsDeleted ==
    /\ last.kind = "deleteUser"
    /\ last.resp.status = 200
    /\ \E h \in snap.history : h.userId = last.target
    /\ history # {}

\* C15: a deleteClassification answered 200, sent while no other request
\* runs, removes exactly the History row with the given id: every other row,
\* every User and every blob of the object store, the blob of the deleted
\* row's image included, is as it was when the request arrived (the object
\* store: unchanged by each step of the request).
C15_DeleteRemovesOnlyTheRow ==
    [][/\ (\E q \in Reqs : req'[q] # req[q] /\ req'[q].kind = "deleteClassification") =>
            store' = store
       /\ (Completes /\ last'.kind = "deleteClassification" /\ last'.resp.status = 200) =>
            /\ \E h \in snap.history : h.id = last'.target
            /\ history' = {h \in snap.history : h.id # last'.target}
            /\ users' = snap.users
            /\ store' = store
            /\ \A h \in snap.history :
                    h.id = last'.target => keyOfUrl(h.image) \in store'
      ]_vars

\* a row was deleted, other rows remain and its blob is still stored
C15_RowDeletedBlobKept ==
    /\ last.kind = "deleteClassification"
    /\ last.resp.status = 200
    /\ history # {}
    /\ \E h \in snap.history :
        /\ h.id = last.target
        /\ h \notin history
        /\ keyOfUrl(h.image) \in store
        /\ \E g \in history : g.userId = h.userId

(***************************************************************************)
(* Properties of updateUser.                                               *)
(***************************************************************************)
PhoneUnique ==
    \A u, v \in users :
        (u.phoneNumber # Null /\ u.phoneNumber = v.phoneNumber) => u = v

\* C16: updateUser of an existing user that sets phoneNumber to a value
\* held by another user is answered 409 and leaves the User table as it
\* was, and in every state no two users share a phoneNumber that is not
\* null (given that the database answers).
C16_PhoneConflict409 ==
    /\ [][(/\ Completes
           /\ last'.kind = "updateUser"
           /\ ~DbFailed(last')
           /\ last'.phoneNumber \notin {Undef, Null}
           /\ \E u \in users : u.id = last'.target
           /\ \E v \in users : v.id # last'.target /\ v.phoneNumber = last'.phoneNumber) =>
                /\ UNCHANGED users
                /\ last'.resp.status = 409
         ]_vars
    /\ []PhoneUnique

(***************************************************************************)
(* Properties of InferenceClient.healthCheck.                              *)
(***************************************************************************)
\* C17: healthCheck never throws, and returns true exactly when the service
\* answered the health request with status 200: false for any other status,
\* a timeout and any network error.
C17_HealthCheckIsBoolean ==
    \A rec \in {req[q] : q \in Reqs} \cup {last} :
        rec.kind = "checkInferenceHealth" =>
            /\ ~rec.health.threw
            /\ rec.health.value \in BOOLEAN
            /\ rec.health.value <=> (rec.http = "response" /\ rec.httpStatus = 200)

\* the service answered 204 and the health check returned false
C17_NoContentIsUnhealthy ==
    /\ last.kind = "checkInferenceHealth"
    /\ last.http = "response"
    /\ last.httpStatus = 204
    /\ ~last.health.value
    /\ last.resp.status = 503

(***************************************************************************)
(* Properties of ErrorHandler.                                             *)
(***************************************************************************)
\* the error texts that come from a collaborator (Prisma, the S3 client,
\* axios, the JavaScript runtime), not from this program
CollaboratorMessages ==
    {DbDown, S3Down, UniqueViolation, ForeignKeyViolation,
     "Request failed with status code", "Record to delete does not exist.",
     "Cannot read properties of null (reading 'predicted_class')"}

\* C18: unless NODE_ENV is 'development', an error response written by
\* ErrorHandler has no stack, no details and no text of the failing
\* collaborator in its message.
C18_ErrorsAreSafeOutsideDevelopment ==
    [][(/\ Completes
        /\ IsError(last'.resp)
        /\ "error_message" \in DOMAIN last'.resp
        /\ nodeEnv # "development") =>
            /\ ~last'.resp.stack
            /\ ~last'.resp.details
            /\ \A i \in 1..Len(last'.resp.error_message) :
                    last'.resp.error_message[i] \notin CollaboratorMessages
      ]_vars

(***************************************************************************)
(* Order of the collaborator calls of classifyImage.                       *)
(***************************************************************************)
ClassifyOrders ==
    {<<"user.findUnique", "s3.upload", "inference.predict",
       "genai.generateInsights", "history.create">>,
     <<"user.findUnique", "user.create", "s3.upload", "inference.predict",
       "genai.generateInsights", "history.create">>}

IsPrefix(s, t) == Len(s) <= Len(t) /\ s = SubSeq(t, 1, Len(s))

HasCalled(rec, name) == \E i \in 1..Len(rec.calls) : rec.calls[i] = name

LastCall(rec) == IF rec.calls = <<>> THEN "" ELSE rec.calls[Len(rec.calls)]

ClassifyRecords == {rec \in {req[q] : q \in Reqs} \cup {last} : rec.kind = "classify"}

\* C19: the calls a classify request has made so far are, in this order, the
\* user lookup, the user creation if any, the upload, the inference call,
\* the insights call and the record creation, or a beginning of that list;
\* a request that is suspended waits for exactly the next call of the list;
\* the upload is begun only with a resolved user, the inference call only
\* with a stored image, the record creation only with a classification
\* result and insights; and a 200 response comes only after all of them.
C19_CallsInOrder ==
    \A rec \in ClassifyRecords :
        /\ \E o \in ClassifyOrders : IsPrefix(rec.calls, o)
        /\ rec.pc = "createUser" => LastCall(rec) = "user.findUnique"
        /\ rec.pc = "upload" => LastCall(rec) \in {"user.findUnique", "user.create"}
        /\ rec.pc = "predict" => LastCall(rec) = "s3.upload"
        /\ rec.pc = "insights" => LastCall(rec) = "inference.predict"
        /\ rec.pc = "save" => LastCall(rec) = "genai.generateInsights"
        /\ (rec.pc = "upload" \/ HasCalled(rec, "s3.upload")) => rec.user # NoUser
        /\ (rec.pc = "predict" \/ HasCalled(rec, "inference.predict")) => rec.image # <<>>
        /\ (rec.pc = "insights" \/ HasCalled(rec, "genai.generateInsights")) =>
                rec.http = "response"
        /\ (rec.pc = "save" \/ HasCalled(rec, "history.create")) =>
                rec.insights # NoInsights
        /\ (rec.resp # NoResp) <=> (rec.pc = "done")
        /\ (rec.pc = "done" /\ rec.resp.status = 200) => LastCall(rec) = "history.create"

\* a first-time request that went through all six calls and was answered 200
C19_AllSixCallsMade ==
    /\ last.kind = "classify"
    /\ last.resp.status = 200
    /\ Len(last.calls) = 6

(***************************************************************************)
(* No retries in classifyImage.                                            *)
(***************************************************************************)
\* the call just made did not deliver what the next step needs
CallFailed(rec) ==
    \/ LastCall(rec) = "user.create" /\ rec.user = NoUser
    \/ LastCall(rec) = "s3.upload" /\ rec.image = <<>>
    \/ LastCall(rec) = "inference.predict" /\ rec.result = NoResult

\* C20: no call is made twice within a classify request; a request whose
\* latest call failed (user creation, upload, inference) is not suspended
\* at a further step but answered, with an error response; and record
\* creation, failed or not, is followed by no further call but the answer.
C20_NoRetries ==
    \A rec \in ClassifyRecords :
        /\ Cardinality({rec.calls[i] : i \in 1..Len(rec.calls)}) = Len(rec.calls)
        /\ CallFailed(rec) => (rec.pc = "done" /\ IsError(rec.resp))
        /\ LastCall(rec) = "history.create" => rec.pc = "done"
        /\ (rec.pc = "done" /\ IsError(rec.resp) /\ rec.calls # <<>>) =>
                \E o \in ClassifyOrders : IsPrefix(rec.calls, o)

\* the inference call failed and the request ended after that single attempt
C20_FailedOnceAndEnded ==
    /\ last.kind = "classify"
    /\ IsError(last.resp)
    /\ LastCall(last) = "inference.predict"
    /\ Len(last.calls) = 3

(***************************************************************************)
(* Lifecycle of History rows.                                              *)
(***************************************************************************)
\* C21: in every step of every request (classify, the reads, the deletes,
\* updateUser, deleteUser) a History row that exists before and after the
\* step is the same in all its fields; a row appears only in the step in
\* which a classify request is answered 200, one row at a time; and a row
\* disappears only in the step in which a deleteClassification or a
\* deleteUser is answered 200.
C21_RecordsImmutable ==
    [][/\ \A h \in history : \A g \in history' : h.id = g.id => h = g
       /\ history' \ history # {} =>
            /\ Completes
            /\ last'.kind = "classify"
            /\ last'.resp.status = 200
            /\ Cardinality(history' \ history) = 1
       /\ history \ history' # {} =>
            /\ Completes
            /\ last'.kind \in {"deleteClassification", "deleteUser"}
            /\ last'.resp.status = 200
      ]_vars

\* a user who has rows was updated
C21_UserWithRowsUpdated ==
    /\ last.kind = "updateUser"
    /\ last.resp.status = 200
    /\ \E h \in history : h.userId = last.target
    /\ history = snap.history

(***************************************************************************)
(* Error kinds of InferenceClient.                                         *)
(***************************************************************************)
InferenceUnavailable ==
    "AI inference service is unavailable. Please ensure the AI model server is running."
InferenceTimedOut ==
    "AI inference request timed out. The image may be too large or the server is busy."

\* C22: whenever a method of InferenceClient (predict, getModels and
\* getModelInfo, getInfo) throws, the error it throws is the client's
\* "unavailable" error exactly when the connection was refused and the
\* client's "timed out" error exactly when the request timed out.
C22_MethodsMapRefusedAndTimeout ==
    \A rec \in {req[q] : q \in Reqs} \cup {last} :
        rec.thrown # NoThrown =>
            /\ rec.thrown.message = InferenceUnavailable <=>
                    rec.thrown.cause = "ECONNREFUSED"
            /\ rec.thrown.message = InferenceTimedOut <=>
                    rec.thrown.cause \in {"ETIMEDOUT", "ECONNABORTED"}

(***************************************************************************)
(* Model selection.                                                        *)
(***************************************************************************)
\* the crop type is the word maize, in capitals or small letters
IsMaize(s) ==
    /\ s \notin {UndefS, NullS}
    /\ Len(s) = 5
    /\ s[1] \in {"m", "M"} /\ s[2] \in {"a", "A"} /\ s[3] \in {"i", "I"}
    /\ s[4] \in {"z", "Z"} /\ s[5] \in {"e", "E"}

\* C23: the model name a classify request passes to InferenceClient.predict
\* is "maize" exactly when the supplied cropType is the word maize in any
\* letter case, and "bean" otherwise, also when no cropType was supplied;
\* the result of the inference plays no part.
C23_ModelFromCropType ==
    \A rec \in ClassifyRecords :
        HasCalled(rec, "inference.predict") =>
            rec.model = (IF IsMaize(rec.cropType) THEN "maize" ELSE "bean")

\* a request with cropType "MaiZE" was sent to the maize model
C23_MaizeInCapitals ==
    /\ last.kind = "classify"
    /\ last.cropType = MaizeCaps
    /\ last.model = "maize"
    /\ last.resp.status = 200

(***************************************************************************)
(* The persisted record.                                                   *)
(***************************************************************************)
\* a value is present when it is neither missing nor the empty text
Present(x) == x \notin {Undef, Null, ""}
PresentS(x) == x \notin {UndefS, NullS, <<>>}

\* the record whose id a successful classify reported
RecordOf(rec) == {h \in history : h.id = rec.resp.data.id}

ClassifySucceeded(rec) ==
    /\ rec.kind = "classify"
    /\ rec.resp.status = 200

\* C24: the record persisted by a successful classify has disease =
\* result.disease if present, else result.predicted_class if present, else
\* "Unknown"; cropType = the supplied cropType if present, else the result's
\* crop_type, else none; model_response = the serialized raw result;
\* genai_response = the insights text (provider's or fallback); userId = the
\* id of the user with the request's email; image = the reference of the
\* blob this request uploaded.
C24_PersistedRecord ==
    ClassifySucceeded(last) =>
        \E h \in RecordOf(last) :
            /\ h.disease = (IF Present(last.result.disease) THEN last.result.disease
                            ELSE IF Present(last.result.predicted_class)
                                 THEN last.result.predicted_class
                            ELSE "Unknown")
            /\ h.cropType = (IF PresentS(last.cropType) THEN last.cropType
                             ELSE IF PresentS(last.result.crop_type)
                                  THEN last.result.crop_type
                             ELSE NullS)
            /\ h.model_response = stringify(last.result)
            /\ parse(h.model_response) = last.result
            /\ h.genai_response = last.insights
            /\ h.genai_response.src = (IF last.genai = "ok" THEN "gemini" ELSE "fallback")
            /\ \E u \in users : u.email = last.email /\ h.userId = u.id
            /\ store = {keyOfUrl(h.image)}
            /\ h.image = last.resp.data.image

\* a record was written from a result without labels for a request without
\* cropType, and another from an empty cropType
C24_UnknownDiseaseNoCrop ==
    /\ ClassifySucceeded(last)
    /\ last.cropType = UndefS
    /\ last.result = ResNone
    /\ \E h \in RecordOf(last) : h.disease = "Unknown" /\ h.cropType = NullS
    /\ last.genai = "threw"

(***************************************************************************)
(* The response against the record.                                        *)
(***************************************************************************)
\* C29: for every successful classify the response reports what the record
\* holds: classification.disease = disease, classification.cropType =
\* cropType, insights = genai_response, image = image, id = id and user.id =
\* userId, also when the result has none of disease, predicted_class and
\* crop_type and no cropType was supplied.
C29_ResponseEqualsRecord ==
    ClassifySucceeded(last) =>
        \E h \in RecordOf(last) :
            /\ last.resp.data.classification.disease = h.disease
            /\ last.resp.data.classification.cropType = h.cropType
            /\ last.resp.data.insights = h.genai_response
            /\ last.resp.data.image = h.image
            /\ last.resp.data.id = h.id
            /\ last.resp.data.user.id = h.userId

(***************************************************************************)
(* Deleting a record that is gone.                                         *)
(***************************************************************************)
\* slot r ends its prisma.history.delete step for a record that is absent
DeletesAbsent(r) ==
    /\ req[r].kind = "deleteClassification"
    /\ req[r].pc = "delete"
    /\ req'[r] # req[r]
    /\ historyFindUnique(history, req[r].target) = {}

\* C25: deleteClassification answers 404 whenever the record is absent when
\* the deletion is attempted; of two requests by the owner for the same
\* record that both passed the lookup, one answers 200 and the other 404.
C25_AbsentAnswersNotFound ==
    [][\A r \in Reqs :
          DeletesAbsent(r) /\ ~DbFailed(last') => last'.resp.status = 404]_vars

(***************************************************************************)
(* The owner of a record.                                                  *)
(***************************************************************************)
\* slot r ends its prisma.history.create step while its user is gone
SavesForMissingUser(r) ==
    /\ req[r].kind = "classify"
    /\ req[r].pc = "save"
    /\ req'[r] # req[r]
    /\ ~\E u \in users : u.id = req[r].user.id

\* C26: in every reachable state the userId of every History row is the id
\* of an existing User, however classifyImage, deleteClassification and
\* deleteUser interleave; a classify whose user was deleted by a concurrent
\* deleteUser before prisma.history.create creates no row and is answered
\* with an error.
C26_RecordsHaveOwners ==
    /\ [](\A h \in history : \E u \in users : u.id = h.userId)
    /\ [][\A r \in Reqs :
             SavesForMissingUser(r) =>
                 /\ history' = history
                 /\ last'.kind = "classify"
                 /\ last'.user = req[r].user
                 /\ IsError(last'.resp)]_vars

\* a classify was refused by the foreign key after its user was deleted
C26_SaveAfterUserDeleted ==
    /\ last.kind = "classify"
    /\ HasCalled(last, "history.create")
    /\ IsError(last.resp)
    /\ ~DbFailed(last)
    /\ ~\E u \in users : u.id = last.user.id
    /\ ~\E h \in history : h.userId = last.user.id

(***************************************************************************)
(* The blobs of the records.                                               *)
(***************************************************************************)
\* C27: in every reachable state the image of every History row designates
\* a blob that is in the object store: a row is created only after its
\* upload succeeded, and no step of any request (deleteClassification,
\* deleteUser, a failed classifyImage) removes a blob.
C27_RecordsHaveBlobs ==
    /\ [](\A h \in history : keyOfUrl(h.image) \in store)
    /\ [][store \subseteq store']_vars

\* a record written by this run is there with its blob after another
\* record was deleted
C27_NewRecordAfterDelete ==
    /\ last.kind \in {"deleteClassification", "deleteUser"}
    /\ last.resp.status = 200
    /\ \E h \in history : h.id > MaxRows /\ keyOfUrl(h.image) \in store
    /\ \E k \in store : ~\E h \in history : keyOfUrl(h.image) = k

(***************************************************************************)
(* Requests that only read.                                                *)
(***************************************************************************)
ReadKinds == {"getUserHistory", "getClassificationById", "getUserStats",
              "checkInferenceHealth", "getAvailableModels"}

\* the step is taken by a reading request: it arrives, goes on or is answered
ReadStep ==
    \/ \E r \in Reqs : req[r].kind \in ReadKinds /\ req'[r] # req[r]
    \/ \E r \in Reqs : Free(r) /\ req'[r].kind \in ReadKinds
    \/ started' # started /\ req' = req /\ last'.kind \in ReadKinds

\* C28: getUserHistory, getClassificationById, getUserStats and the
\* inference health and models endpoints are read-only: for every input,
\* also an email that has no User, each of their steps leaves the User
\* table, the History table and the object store as they were; a read for
\* an unknown email creates no User.
C28_ReadsChangeNothing ==
    [][ReadStep => /\ users' = users
                   /\ history' = history
                   /\ store' = store
                   /\ nextUid' = nextUid
                   /\ nextHid' = nextHid
                   /\ nextKey' = nextKey]_vars

\* a listing and the statistics for an email without User were served, and
\* there is still no such User
C28_UnknownEmailRead ==
    /\ last.kind \in {"getUserHistory", "getUserStats"}
    /\ last.email = EmailC
    /\ last.resp.status = 200
    /\ ~\E u \in users : u.email = EmailC
    /\ started = MaxStarts

(***************************************************************************)
(* Every request is answered once.                                         *)
(***************************************************************************)
LiveKinds == {"classify", "getUserHistory", "getClassificationById", "getUserStats",
              "deleteClassification"}

NoResponse(rec) == rec.resp.status = 0

\* slot r is freed by this step
Ends(r) == InFlight(r) /\ req'[r] # req[r] /\ req'[r].pc = "idle"

\* a request arrives and is answered before its first await
EndsOnArrival == started' # started /\ req' = req

\* C30: when every collaborator call returns or fails, every classifyImage,
\* getUserHistory, getClassificationById, getUserStats and
\* deleteClassification request is answered exactly once, by a success body
\* or by an error given to the error handler: a request in flight is
\* answered at some time, it has no response while it is in flight, and the
\* step that ends it writes one response and answers one request.
C30_AnsweredExactlyOnce ==
    /\ \A r \in Reqs : (InFlight(r) /\ req[r].kind \in LiveKinds) ~> Free(r)
    /\ [](\A r \in Reqs : InFlight(r) => NoResponse(req[r]))
    /\ [][\A r \in Reqs :
             Ends(r) => /\ last'.kind = req[r].kind
                        /\ last'.resp.status \in 200..599
                        /\ Completes]_vars
    /\ [][EndsOnArrival => /\ last'.kind \in LiveKinds
                           /\ last'.resp.status \in 200..599
                           /\ Completes]_vars

\* both requests were answered, the second after a collaborator failed
C30_BothAnswered ==
    /\ started = MaxStarts
    /\ \A r \in Reqs : Free(r)
    /\ Answered = MaxStarts
    /\ last.kind = "classify"
    /\ last.http = "ETIMEDOUT"
    /\ IsError(last.resp)

====
